---- MODULE Spec2Model ----
(***************************************************************************)
(* Model of the university-records API assembled by src/main.py: the five  *)
(* routers of src/app/routers (estudiantes, curso, departamento, profesor, *)
(* matricula) acting on one relational store.  A handler is an operator   *)
(* from the store it reads and its request to the response it returns and  *)
(* the store it leaves: it runs to completion against its session and      *)
(* commits once, or raises an HTTPException and commits nothing.  There is *)
(* one action per handler, which commits the handler's store.              *)
(*                                                                         *)
(* Text values are sequences of one-character strings, so that isdigit,    *)
(* strip, upper, split and len are computed as Python computes them.       *)
(***************************************************************************)
EXTENDS Integers, Sequences, FiniteSets, TLC

\* The five tables of the store (src/models.py).  estudiantes, profesores,
\* departamentos and cursos map a row's id to its columns; matriculas is the set
\* of Matricula rows, keyed by (estudiante_id, curso_id).
VARIABLES estudiantes, profesores, departamentos, cursos, matriculas,
          \* the enroll requests in flight: each worker's position in
          \* matricular_estudiante and the pair it was asked to enroll
          sesiones

vars == <<estudiantes, profesores, departamentos, cursos, matriculas, sesiones>>

\* The store as one value: what a session reads and what a commit writes.
DB == [estudiantes |-> estudiantes, profesores |-> profesores,
       departamentos |-> departamentos, cursos |-> cursos, matriculas |-> matriculas]

(***************************************************************************)
(* Bounds of the model.                                                    *)
(***************************************************************************)
MaxEstudiantes == 2
MaxProfesores == 1
MaxDepartamentos == 1
MaxCursos == 2
\* Professors of the staff-only specification
MaxProfesoresPlantilla == 2
\* Enroll requests served at the same time
NumPeticiones == 2

(***************************************************************************)
(* Python str methods on sequences of characters.                          *)
(***************************************************************************)
Digitos == {"0", "1", "2", "3", "4", "5", "6", "7", "8", "9"}
LetrasMin == <<"a", "b", "c", "d", "e", "f", "g", "h", "i", "j", "k", "l", "m",
               "n", "o", "p", "q", "r", "s", "t", "u", "v", "w", "x", "y", "z">>
LetrasMay == <<"A", "B", "C", "D", "E", "F", "G", "H", "I", "J", "K", "L", "M",
               "N", "O", "P", "Q", "R", "S", "T", "U", "V", "W", "X", "Y", "Z">>
Espacios == {" "}

Rango(s) == {s[i] : i \in 1..Len(s)}
EsLetra(c) == \E i \in 1..Len(LetrasMin) : c = LetrasMin[i] \/ c = LetrasMay[i]

\* str.isdigit(): non-empty and every character a digit
isdigit(s) == Len(s) > 0 /\ \A i \in 1..Len(s) : s[i] \in Digitos
\* str.isalnum(): non-empty and every character a letter or a digit
isalnum(s) == Len(s) > 0 /\ \A i \in 1..Len(s) : s[i] \in Digitos \/ EsLetra(s[i])
\* all(c.isalpha() or c.isspace() for c in s): true of the empty string
SoloLetrasYEspacios(s) == \A i \in 1..Len(s) : EsLetra(s[i]) \/ s[i] \in Espacios

\* int(s) of a string of digits
DigitoValor(c) == CHOOSE v \in 0..9 : <<"0", "1", "2", "3", "4", "5", "6", "7", "8", "9">>[v + 1] = c
RECURSIVE int(_)
int(s) == IF s = <<>> THEN 0 ELSE 10 * int(SubSeq(s, 1, Len(s) - 1)) + DigitoValor(s[Len(s)])

\* str.strip(): whitespace removed from both ends
strip(s) ==
    LET noEsp == {i \in 1..Len(s) : s[i] \notin Espacios}
    IN  IF noEsp = {} THEN <<>>
        ELSE LET a == CHOOSE i \in noEsp : \A j \in noEsp : i <= j
                 b == CHOOSE i \in noEsp : \A j \in noEsp : i >= j
             IN  SubSeq(s, a, b)
EnBlanco(s) == strip(s) = <<>>

\* A str left as it was written
sin_normalizar(s) == s
\* str.upper()
upperChar(c) ==
    IF \E i \in 1..Len(LetrasMin) : LetrasMin[i] = c
    THEN LetrasMay[CHOOSE i \in 1..Len(LetrasMin) : LetrasMin[i] = c]
    ELSE c
upper(s) == [i \in 1..Len(s) |-> upperChar(s[i])]

\* s.split('@')[-1]: what follows the last '@', or all of s without one
TrasUltimaArroba(s) ==
    LET arr == {i \in 1..Len(s) : s[i] = "@"}
    IN  IF arr = {} THEN s
        ELSE SubSeq(s, (CHOOSE i \in arr : \A j \in arr : i >= j) + 1, Len(s))
\* '@' not in email or '.' not in email.split('@')[-1]
EmailInvalido(s) == "@" \notin Rango(s) \/ "." \notin Rango(TrasUltimaArroba(s))

(***************************************************************************)
(* Request values.  Each pool holds valid values (as many as the table may *)
(* hold rows) and values that each validation branch rejects.              *)
(***************************************************************************)
CedulasValidas == <<(<<"1", "0", "0", "0", "1">>), (<<"1", "0", "0", "0", "2">>),
                    (<<"1", "0", "0", "0", "3">>), (<<"1", "0", "0", "0", "4">>)>>
CedulaConLetra == <<"1", "0", "0", "0", "a">>
CedulaCorta == <<"1", "2", "3">>
EmailsValidos == <<(<<"a", "@", "u", ".", "c">>), (<<"b", "@", "u", ".", "c">>),
                   (<<"c", "@", "u", ".", "c">>), (<<"d", "@", "u", ".", "c">>)>>
EmailSinPunto == <<"a", "@", "u">>
NombreValido == <<"A", "n", "a">>
NombreConDigito == <<"A", "n", "4">>
EnBlancoTexto == <<" ">>
SemestreValido == <<"3">>
SemestreFuera == <<"1", "3">>
SemestreNoNumero == <<"x">>
TituloValido == <<"P", "h", "D">>
HorarioValido == <<"L", "8">>
CodigosCurso == <<(<<"M", "1">>), (<<"F", "1">>), (<<"Q", "1">>), (<<"B", "1">>)>>
CodigosDepartamento == <<(<<"i", "n", "g">>), (<<"h", "u", "m">>), (<<"m", "a", "t">>)>>
CodigoConSimbolo == <<"i", "-", "g">>
CodigoLargo == <<"i", "n", "g", "e", "n", "i">>

Primeros(pool, n) == {pool[i] : i \in 1..(IF n < Len(pool) THEN n ELSE Len(pool))}

NULL == "null"

(***************************************************************************)
(* The store.  SQLite gives a new row of an INTEGER PRIMARY KEY table the  *)
(* largest id in the table plus one.                                       *)
(***************************************************************************)
Maximo(S) == CHOOSE x \in S : \A y \in S : y <= x
NextId(tabla) == IF DOMAIN tabla = {} THEN 1 ELSE Maximo(DOMAIN tabla) + 1
Insertar(tabla, fila) == [i \in DOMAIN tabla \cup {NextId(tabla)} |->
                             IF i \in DOMAIN tabla THEN tabla[i] ELSE fila]
Borrar(tabla, id) == [i \in DOMAIN tabla \ {id} |-> tabla[i]]

\* setattr(fila, campo, valor) for every campo of datos
Aplicar(fila, datos) == [k \in DOMAIN fila |-> IF k \in DOMAIN datos THEN datos[k] ELSE fila[k]]

\* {k: v for k, v in datos.items() if not (isinstance(v, str) and not v.strip())}
CamposTexto == {"nombre", "email", "semestre", "titulo", "horario", "codigo"}
Filtrar(datos) ==
    LET quedan == {k \in DOMAIN datos : ~(k \in CamposTexto /\ EnBlanco(datos[k]))}
    IN  [k \in quedan |-> datos[k]]

(***************************************************************************)
(* What a handler returns: the response (HTTP status, detail, aggregated   *)
(* error list, id of the row, reported count, rows of the body) and the    *)
(* store after it.                                                         *)
(***************************************************************************)
Exitos == {200, 201, 204}
Respuesta(status, detalle, errores, id, n, cuerpo) ==
    [status |-> status, detalle |-> detalle, errores |-> errores,
     id |-> id, n |-> n, cuerpo |-> cuerpo]
\* raise HTTPException(status_code, detail): nothing is committed
Falla(db, status, detalle) ==
    [resp |-> Respuesta(status, detalle, <<>>, 0, 0, {}), db |-> db]
FallaValidacion(db, errores) ==
    [resp |-> Respuesta(400, "Errores de validacion", errores, 0, 0, {}), db |-> db]
\* session.commit() and the return
Exito(db, status, id) ==
    [resp |-> Respuesta(status, "", <<>>, id, 0, {}), db |-> db]

\* A worker between requests
Peticiones == 1..NumPeticiones
Libre == [fase |-> "libre", e |-> 0, c |-> 0, status |-> 0]

Init ==
    /\ estudiantes = <<>>
    /\ profesores = <<>>
    /\ departamentos = <<>>
    /\ cursos = <<>>
    /\ matriculas = {}
    /\ sesiones = [p \in Peticiones |-> Libre]

(***************************************************************************)
(* Relationships (src/models.py): computed by query, never stored.         *)
(***************************************************************************)
\* Estudiante.cursos: the courses linked to the student through Matricula
CursosDeEstudiante(db, id) ==
    {c \in DOMAIN db.cursos :
        \E m \in db.matriculas : m.estudiante_id = id /\ m.curso_id = c}
\* Curso.estudiantes: the students linked to the course through Matricula
EstudiantesDeCurso(db, id) ==
    {e \in DOMAIN db.estudiantes :
        \E m \in db.matriculas : m.curso_id = id /\ m.estudiante_id = e}
\* Profesor.cursos: the courses whose profesor_id is the professor
\* Profesor.cursos narrowed to the active courses
CursosActivosDeProfesor(db, id) ==
    {c \in DOMAIN db.cursos : db.cursos[c].profesor_id = id /\ db.cursos[c].activo}
CursosDeProfesor(db, id) == {c \in DOMAIN db.cursos : db.cursos[c].profesor_id = id}
\* Departamento.profesores, Departamento.cursos
\* Departamento.profesores narrowed to the active professors
ProfesoresActivosDeDepartamento(db, id) ==
    {p \in DOMAIN db.profesores :
        db.profesores[p].departamento_id = id /\ db.profesores[p].activo}
ProfesoresDeDepartamento(db, id) ==
    {p \in DOMAIN db.profesores : db.profesores[p].departamento_id = id}
CursosDeDepartamento(db, id) ==
    {c \in DOMAIN db.cursos : db.cursos[c].departamento_id = id}

\* select(Matricula).where(Matricula.estudiante_id == id) / (Matricula.curso_id == id)
MatriculasPorEstudiante(db, id) == {m \in db.matriculas : m.estudiante_id = id}
\* A select of the enrollments that leaves out the filter on the course
TodasLasMatriculas(db, id) == db.matriculas
MatriculasPorCurso(db, id) == {m \in db.matriculas : m.curso_id = id}

(***************************************************************************)
(* app/routers/estudiantes.py                                              *)
(***************************************************************************)
ErroresCrearEstudiante(db, req) ==
    (IF ~isdigit(req.cedula)
       THEN <<"La cedula solo puede contener numeros">>
     ELSE IF Len(req.cedula) < 5 \/ Len(req.cedula) > 12
       THEN <<"La cedula debe tener entre 5 y 12 digitos">>
     ELSE IF \E i \in DOMAIN db.estudiantes : db.estudiantes[i].cedula = req.cedula
       THEN <<"La cedula ya existe">>
     ELSE <<>>)
    \o
    (IF EnBlanco(req.nombre)
       THEN <<"El nombre no puede estar vacio">>
     ELSE IF ~SoloLetrasYEspacios(req.nombre)
       THEN <<"El nombre solo puede contener letras y espacios">>
     ELSE <<>>)
    \o
    (IF EmailInvalido(req.email)
       THEN <<"Formato de email invalido">>
     ELSE IF \E i \in DOMAIN db.estudiantes : db.estudiantes[i].email = req.email
       THEN <<"El email ya existe">>
     ELSE <<>>)
    \o
    (IF ~isdigit(req.semestre)
       THEN <<"El semestre debe ser un numero">>
     ELSE IF int(req.semestre) < 1 \/ int(req.semestre) > 12
       THEN <<"El semestre debe estar entre 1 y 12">>
     ELSE <<>>)

crear_estudiante(db, req) ==
    LET errores == ErroresCrearEstudiante(db, req)
    IN  IF errores # <<>>
        THEN FallaValidacion(db, errores)
        ELSE Exito([db EXCEPT !.estudiantes = Insertar(@, req)], 201,
                   NextId(db.estudiantes))

\* The first check of actualizar_estudiante that fails, as <<status, detail>>, or <<>>
\* A lookup of the email that finds no other student
EmailSinBuscar(db, id, email) == FALSE
\* select(Estudiante).where(Estudiante.email == email, Estudiante.id != estudiante_id)
EmailDeOtroEstudiante(db, id, email) ==
    \E i \in DOMAIN db.estudiantes : db.estudiantes[i].email = email /\ i # id

RechazoActualizarEstudiante(db, id, datos) ==
    IF DOMAIN datos = {}
      THEN <<400, "No se enviaron campos validos para actualizar">>
    ELSE IF "nombre" \in DOMAIN datos /\ ~SoloLetrasYEspacios(datos["nombre"])
      THEN <<400, "El nombre solo puede contener letras y espacios">>
    ELSE IF "email" \in DOMAIN datos /\ strip(datos["email"]) # <<>>
            /\ EmailInvalido(strip(datos["email"]))
      THEN <<400, "Formato de email invalido">>
    ELSE IF "email" \in DOMAIN datos /\ strip(datos["email"]) # <<>>
            /\ EmailDeOtroEstudiante(db, id, strip(datos["email"]))
      THEN <<409, "El email ya esta registrado">>
    ELSE IF "semestre" \in DOMAIN datos /\ ~isdigit(datos["semestre"])
      THEN <<400, "El semestre debe ser un numero">>
    ELSE IF "semestre" \in DOMAIN datos
            /\ (int(datos["semestre"]) < 1 \/ int(datos["semestre"]) > 12)
      THEN <<400, "El semestre debe estar entre 1 y 12">>
    ELSE <<>>

actualizar_estudiante(db, id, datos_actualizacion) ==
    IF id \notin DOMAIN db.estudiantes
    THEN Falla(db, 404, "Estudiante no encontrado")
    ELSE LET datos_filtrados == Filtrar(datos_actualizacion)
             rechazo == RechazoActualizarEstudiante(db, id, datos_filtrados)
         IN  IF rechazo # <<>>
             THEN Falla(db, rechazo[1], rechazo[2])
             ELSE Exito([db EXCEPT !.estudiantes[id] = Aplicar(@, datos_filtrados)],
                        200, id)

\* eliminar_estudiante as the unmounted src/estudiantes.py has it: the flag is
\* cleared and the student's enrollments stay
eliminar_estudiante_sin_cascada(db, id) ==
    IF id \notin DOMAIN db.estudiantes
    THEN Falla(db, 404, "Estudiante no encontrado")
    ELSE IF ~db.estudiantes[id].activo
    THEN Falla(db, 400, "El estudiante ya esta inactivo")
    ELSE [resp |-> Respuesta(200, "Estudiante desactivado exitosamente", <<>>, id, 0, {}),
          db |-> [db EXCEPT !.estudiantes[id].activo = FALSE]]

eliminar_estudiante(db, id) ==
    IF id \notin DOMAIN db.estudiantes
    THEN Falla(db, 404, "Estudiante no encontrado")
    ELSE IF ~db.estudiantes[id].activo
    THEN Falla(db, 400, "El estudiante ya esta inactivo")
    ELSE LET cantidad_cursos == Cardinality(CursosDeEstudiante(db, id))
             sin_matriculas ==
                 IF cantidad_cursos > 0
                 THEN db.matriculas \ MatriculasPorEstudiante(db, id)
                 ELSE db.matriculas
         IN  [resp |-> Respuesta(200, "Estudiante desactivado exitosamente", <<>>, id,
                                 cantidad_cursos, {}),
              db |-> [db EXCEPT !.matriculas = sin_matriculas,
                                !.estudiantes[id].activo = FALSE]]

(***************************************************************************)
(* app/routers/profesor.py                                                 *)
(***************************************************************************)
ErroresCrearProfesor(db, req) ==
    (IF ~isdigit(req.cedula)
       THEN <<"La cedula solo puede contener numeros">>
     ELSE IF Len(req.cedula) < 5 \/ Len(req.cedula) > 12
       THEN <<"El numero de cedula debe estar entre 5 y 12 digitos">>
     ELSE IF \E i \in DOMAIN db.profesores : db.profesores[i].cedula = req.cedula
       THEN <<"La cedula ya existe">>
     ELSE <<>>)
    \o
    (IF EnBlanco(req.nombre)
       THEN <<"El nombre no puede estar vacio">>
     ELSE IF ~SoloLetrasYEspacios(req.nombre)
       THEN <<"El nombre solo puede contener letras y espacios">>
     ELSE <<>>)
    \o
    (IF EmailInvalido(req.email)
       THEN <<"Formato de email invalido">>
     ELSE IF \E i \in DOMAIN db.profesores : db.profesores[i].email = req.email
       THEN <<"El email ya existe">>
     ELSE <<>>)
    \o
    (IF EnBlanco(req.titulo) THEN <<"El titulo no puede estar vacio">> ELSE <<>>)
    \o
    (IF req.departamento_id \notin DOMAIN db.departamentos
       THEN <<"Departamento no encontrado">>
     ELSE <<>>)

crear_profesor(db, req) ==
    LET errores == ErroresCrearProfesor(db, req)
    IN  IF errores # <<>>
        THEN FallaValidacion(db, errores)
        ELSE Exito([db EXCEPT !.profesores = Insertar(@, req)], 200,
                   NextId(db.profesores))

\* The first check of actualizar_profesor that fails, as <<status, detail>>, or <<>>
RechazoActualizarProfesor(db, datos) ==
    IF DOMAIN datos = {}
      THEN <<400, "No se enviaron campos validos para actualizar">>
    ELSE IF "nombre" \in DOMAIN datos /\ ~SoloLetrasYEspacios(datos["nombre"])
      THEN <<400, "El nombre solo puede contener letras y espacios">>
    ELSE IF "titulo" \in DOMAIN datos /\ EnBlanco(datos["titulo"])
      THEN <<400, "El titulo no puede estar vacio">>
    ELSE IF "departamento_id" \in DOMAIN datos
            /\ datos["departamento_id"] \notin DOMAIN db.departamentos
      THEN <<404, "Departamento no encontrado">>
    ELSE <<>>

actualizar_profesor(db, id, datos_actualizacion) ==
    IF id \notin DOMAIN db.profesores
    THEN Falla(db, 404, "Profesor no encontrado")
    ELSE LET datos_filtrados == Filtrar(datos_actualizacion)
             rechazo == RechazoActualizarProfesor(db, datos_filtrados)
         IN  IF rechazo # <<>>
             THEN Falla(db, rechazo[1], rechazo[2])
             ELSE Exito([db EXCEPT !.profesores[id] = Aplicar(@, datos_filtrados)],
                        200, id)

\* eliminar_profesor committing the cleared flag before it looks at the courses
eliminar_profesor_escribe_y_falla(db, id) ==
    IF id \notin DOMAIN db.profesores
    THEN Falla(db, 404, "Profesor no encontrado")
    ELSE IF ~db.profesores[id].activo
    THEN Falla(db, 400, "El profesor ya esta eliminadoo")
    ELSE IF CursosDeProfesor(db, id) # {}
    THEN Falla([db EXCEPT !.profesores[id].activo = FALSE], 400,
               "No se puede eliminar el profesor porque tiene cursos asignados")
    ELSE [resp |-> Respuesta(200, "Profesor desactivado exitosamente", <<>>, id, 0, {}),
          db |-> [db EXCEPT !.profesores[id].activo = FALSE]]

eliminar_profesor(db, id) ==
    IF id \notin DOMAIN db.profesores
    THEN Falla(db, 404, "Profesor no encontrado")
    ELSE IF ~db.profesores[id].activo
    THEN Falla(db, 400, "El profesor ya esta eliminadoo")
    ELSE IF CursosDeProfesor(db, id) # {}
    THEN [resp |-> Respuesta(400,
                     "No se puede eliminar el profesor porque tiene cursos asignados",
                     <<>>, 0, Cardinality(CursosDeProfesor(db, id)), {}),
          db |-> db]
    ELSE [resp |-> Respuesta(200, "Profesor desactivado exitosamente", <<>>, id, 0, {}),
          db |-> [db EXCEPT !.profesores[id].activo = FALSE]]

(***************************************************************************)
(* app/routers/departamento.py                                             *)
(***************************************************************************)
ErroresCrearDepartamento(db, codigo, nombre) ==
    (IF EnBlanco(codigo)
       THEN <<"El codigo no puede estar vacio">>
     ELSE IF ~isalnum(codigo)
       THEN <<"El codigo solo puede contener letras y numeros, sin espacios ni simbolos">>
     ELSE IF Len(codigo) < 2 \/ Len(codigo) > 5
       THEN <<"El codigo debe tener entre 2 y 5 caracteres">>
     ELSE IF \E i \in DOMAIN db.departamentos : db.departamentos[i].codigo = codigo
       THEN <<"El codigo del departamento ya existe">>
     ELSE <<>>)
    \o
    (IF EnBlanco(nombre) THEN <<"El nombre no puede estar vacio">> ELSE <<>>)

crear_departamento(db, req) ==
    LET codigo == upper(req.codigo)
        errores == ErroresCrearDepartamento(db, codigo, req.nombre)
    IN  IF errores # <<>>
        THEN FallaValidacion(db, errores)
        ELSE Exito([db EXCEPT !.departamentos = Insertar(@, [req EXCEPT !.codigo = codigo])],
                   201, NextId(db.departamentos))

actualizar_departamento(db, id, datos_actualizacion) ==
    IF id \notin DOMAIN db.departamentos
    THEN Falla(db, 404, "Departamento no encontrado")
    ELSE IF "nombre" \in DOMAIN datos_actualizacion /\ EnBlanco(datos_actualizacion["nombre"])
    THEN FallaValidacion(db, <<"El nombre no puede estar vacio">>)
    ELSE Exito([db EXCEPT !.departamentos[id] = Aplicar(@, datos_actualizacion)], 200, id)

eliminar_departamento(db, id) ==
    IF id \notin DOMAIN db.departamentos
    THEN Falla(db, 404, "Departamento no encontrado")
    ELSE IF ProfesoresDeDepartamento(db, id) # {}
    THEN [resp |-> Respuesta(400,
                     "No se puede eliminar el departamento porque tiene profesor(es) asignado(s)",
                     <<>>, 0, Cardinality(ProfesoresDeDepartamento(db, id)), {}),
          db |-> db]
    ELSE IF CursosDeDepartamento(db, id) # {}
    THEN [resp |-> Respuesta(400,
                     "No se puede eliminar el departamento porque tiene curso(s) asignado(s)",
                     <<>>, 0, Cardinality(CursosDeDepartamento(db, id)), {}),
          db |-> db]
    ELSE Exito([db EXCEPT !.departamentos = Borrar(@, id)], 204, id)

\* select(Departamento).where(Departamento.codigo == codigo).first(), on the
\* uppercased query
buscar_por_codigo(db, codigo) ==
    LET clave == upper(codigo)
        hallados == {d \in DOMAIN db.departamentos : db.departamentos[d].codigo = clave}
    IN  IF hallados = {}
        THEN Falla(db, 404, "Departamento no encontrado")
        ELSE Exito(db, 200, CHOOSE d \in hallados : TRUE)

(***************************************************************************)
(* app/routers/curso.py                                                    *)
(***************************************************************************)
\* The active flag of a new Curso (the column's default)
CursoActivoInicial == TRUE

\* A check of profesor.activo that every professor passes
ProfesorSiempreActivo(db, p) == TRUE
\* profesor.activo of the professor a course is assigned to
ProfesorActivo(db, p) == db.profesores[p].activo

\* The first check of crear_curso that fails, as <<status, detail>>, or <<>>
RechazoCrearCurso(db, req) ==
    IF EnBlanco(req.codigo)
      THEN <<400, "El codigo no puede estar vacio">>
    ELSE IF \E i \in DOMAIN db.cursos : db.cursos[i].codigo = req.codigo
      THEN <<409, "El codigo del curso ya existe">>
    ELSE IF EnBlanco(req.nombre)
      THEN <<400, "El nombre no puede estar vacio">>
    ELSE IF req.creditos < 1 \/ req.creditos > 6
      THEN <<400, "Los creditos deben estar entre 1 y 6">>
    ELSE IF EnBlanco(req.horario)
      THEN <<400, "El horario no puede estar vacio">>
    ELSE IF req.profesor_id \notin DOMAIN db.profesores
      THEN <<404, "Profesor no encontrado">>
    ELSE IF ~ProfesorActivo(db, req.profesor_id)
      THEN <<400, "El profesor no esta activo">>
    ELSE IF req.departamento_id \notin DOMAIN db.departamentos
      THEN <<404, "Departamento no encontrado">>
    ELSE <<>>

\* Curso.model_validate(nuevo_curso)
NuevoCurso(req) ==
    [codigo |-> req.codigo, nombre |-> req.nombre, creditos |-> req.creditos,
     horario |-> req.horario, profesor_id |-> req.profesor_id,
     departamento_id |-> req.departamento_id, activo |-> CursoActivoInicial]

crear_curso(db, req) ==
    LET rechazo == RechazoCrearCurso(db, req)
    IN  IF rechazo # <<>>
        THEN Falla(db, rechazo[1], rechazo[2])
        ELSE Exito([db EXCEPT !.cursos = Insertar(@, NuevoCurso(req))], 201,
                   NextId(db.cursos))

\* The first check of actualizar_curso that fails, as <<status, detail>>, or <<>>
RechazoActualizarCurso(db, datos) ==
    IF DOMAIN datos = {}
      THEN <<400, "No se enviaron campos validos para actualizar">>
    ELSE IF "nombre" \in DOMAIN datos /\ EnBlanco(datos["nombre"])
      THEN <<400, "El nombre no puede estar vacio">>
    ELSE IF "creditos" \in DOMAIN datos /\ ~(1 <= datos["creditos"] /\ datos["creditos"] <= 6)
      THEN <<400, "Los creditos deben estar entre 1 y 6">>
    ELSE IF "horario" \in DOMAIN datos /\ EnBlanco(datos["horario"])
      THEN <<400, "El horario no puede estar vacio">>
    ELSE IF "profesor_id" \in DOMAIN datos /\ datos["profesor_id"] \notin DOMAIN db.profesores
      THEN <<404, "Profesor no encontrado">>
    ELSE IF "profesor_id" \in DOMAIN datos /\ ~ProfesorActivo(db, datos["profesor_id"])
      THEN <<400, "El profesor no esta activo">>
    ELSE <<>>

\* actualizar_curso refusing to change a course that is inactive
actualizar_curso_solo_activos(db, id, datos_actualizacion) ==
    IF id \notin DOMAIN db.cursos
    THEN Falla(db, 404, "Curso no encontrado")
    ELSE IF ~db.cursos[id].activo
    THEN Falla(db, 400, "El curso no esta activo")
    ELSE LET datos_filtrados == Filtrar(datos_actualizacion)
             rechazo == RechazoActualizarCurso(db, datos_filtrados)
         IN  IF rechazo # <<>>
             THEN Falla(db, rechazo[1], rechazo[2])
             ELSE Exito([db EXCEPT !.cursos[id] = Aplicar(@, datos_filtrados)], 200, id)

actualizar_curso(db, id, datos_actualizacion) ==
    IF id \notin DOMAIN db.cursos
    THEN Falla(db, 404, "Curso no encontrado")
    ELSE LET datos_filtrados == Filtrar(datos_actualizacion)
             rechazo == RechazoActualizarCurso(db, datos_filtrados)
         IN  IF rechazo # <<>>
             THEN Falla(db, rechazo[1], rechazo[2])
             ELSE Exito([db EXCEPT !.cursos[id] = Aplicar(@, datos_filtrados)], 200, id)

\* eliminar_curso without the check of the flag: an inactive course is
\* deactivated again
eliminar_curso_sin_revisar_activo(db, id) ==
    IF id \notin DOMAIN db.cursos
    THEN Falla(db, 404, "Curso no encontrado")
    ELSE [resp |-> Respuesta(200, "Curso desactivado exitosamente", <<>>, id,
                             Cardinality(EstudiantesDeCurso(db, id)), {}),
          db |-> [db EXCEPT !.matriculas = @ \ MatriculasPorCurso(db, id),
                            !.cursos[id].activo = FALSE]]

eliminar_curso(db, id) ==
    IF id \notin DOMAIN db.cursos
    THEN Falla(db, 404, "Curso no encontrado")
    ELSE IF ~db.cursos[id].activo
    THEN Falla(db, 400, "El curso ya esta inactivo")
    ELSE LET cantidad_estudiantes == Cardinality(EstudiantesDeCurso(db, id))
             sin_matriculas ==
                 IF cantidad_estudiantes > 0
                 THEN db.matriculas \ MatriculasPorCurso(db, id)
                 ELSE db.matriculas
         IN  [resp |-> Respuesta(200, "Curso desactivado exitosamente", <<>>, id,
                                 cantidad_estudiantes, {}),
              db |-> [db EXCEPT !.matriculas = sin_matriculas,
                                !.cursos[id].activo = FALSE]]

(***************************************************************************)
(* app/routers/matricula.py                                                *)
(***************************************************************************)
\* A lookup of the enrollment that finds nothing
MatriculaNuncaExistente(db, e, c) == FALSE
\* select(Matricula).where(estudiante_id == e, curso_id == c).first()
MatriculaExistente(db, e, c) ==
    \E m \in db.matriculas : m.estudiante_id = e /\ m.curso_id = c

\* An enrollment created with a grade and a pass flag
NuevaMatriculaCalificada(e, c) ==
    [estudiante_id |-> e, curso_id |-> c, nota_final |-> "0", aprobado |-> "False"]
\* Matricula.model_validate(nueva_matricula): nota_final and aprobado default to None
NuevaMatricula(e, c) ==
    [estudiante_id |-> e, curso_id |-> c, nota_final |-> NULL, aprobado |-> NULL]

\* A table without the composite primary key: any row is accepted
SinClavePrimaria(db, e, c) == FALSE
\* The composite primary key (estudiante_id, curso_id): a second row with the key
\* of a stored row is refused by the store at commit
ViolaClavePrimaria(db, e, c) ==
    \E m \in db.matriculas : m.estudiante_id = e /\ m.curso_id = c

\* The first check of matricular_estudiante that fails, as <<status, detail>>,
\* or <<>>: the reads the handler makes before it adds the row
\* The checks of matricular_estudiante without resolving the student and the
\* course: only the lookup of the pair is left
RechazoMatricularSinResolver(db, e, c) ==
    IF MatriculaExistente(db, e, c)
      THEN <<409, "El estudiante ya esta matriculado en este curso">>
    ELSE <<>>

RechazoMatricular(db, e, c) ==
    IF e \notin DOMAIN db.estudiantes
      THEN <<404, "Estudiante no encontrado">>
    ELSE IF c \notin DOMAIN db.cursos
      THEN <<404, "Curso no encontrado">>
    ELSE IF MatriculaExistente(db, e, c)
      THEN <<409, "El estudiante ya esta matriculado en este curso">>
    ELSE <<>>

\* session.add(matricula); session.commit(): the insert, which the store
\* refuses when the key is taken
ConfirmarMatricula(db, e, c) ==
    IF ViolaClavePrimaria(db, e, c)
    THEN Falla(db, 500, "IntegrityError")
    ELSE [resp |-> Respuesta(201, "", <<>>, 0, 0, {NuevaMatricula(e, c)}),
          db |-> [db EXCEPT !.matriculas = @ \cup {NuevaMatricula(e, c)}]]

matricular_estudiante(db, e, c) ==
    LET rechazo == RechazoMatricular(db, e, c)
    IN  IF rechazo # <<>>
        THEN Falla(db, rechazo[1], rechazo[2])
        ELSE ConfirmarMatricula(db, e, c)

\* A lookup by the student alone
ObtenerMatriculaSinCurso(db, e, c) == {m \in db.matriculas : m.estudiante_id = e}
\* session.get(Matricula, (estudiante_id, curso_id))
ObtenerMatricula(db, e, c) ==
    {m \in db.matriculas : m.estudiante_id = e /\ m.curso_id = c}

\* desmatricular_estudiante answering 204 whether or not the enrollment exists
desmatricular_estudiante_idempotente(db, e, c) ==
    Exito([db EXCEPT !.matriculas = @ \ ObtenerMatricula(db, e, c)], 204, 0)

desmatricular_estudiante(db, e, c) ==
    IF ObtenerMatricula(db, e, c) = {}
    THEN Falla(db, 404, "Matricula no encontrada")
    ELSE Exito([db EXCEPT !.matriculas = @ \ ObtenerMatricula(db, e, c)], 204, 0)

obtener_matriculas_estudiante(db, e) ==
    IF e \notin DOMAIN db.estudiantes
    THEN Falla(db, 404, "Estudiante no encontrado")
    ELSE [resp |-> Respuesta(200, "", <<>>, 0, 0, MatriculasPorEstudiante(db, e)),
          db |-> db]

\* obtener_matriculas_curso answering 404 for a course without enrollments, as
\* buscar_matriculas_por_curso of the unmounted src/matriculas.py does
obtener_matriculas_curso_404_si_vacio(db, c) ==
    IF c \notin DOMAIN db.cursos
    THEN Falla(db, 404, "Curso no encontrado")
    ELSE IF MatriculasPorCurso(db, c) = {}
    THEN Falla(db, 404, "No hay matriculas para este curso")
    ELSE [resp |-> Respuesta(200, "", <<>>, 0, 0, MatriculasPorCurso(db, c)),
          db |-> db]

obtener_matriculas_curso(db, c) ==
    IF c \notin DOMAIN db.cursos
    THEN Falla(db, 404, "Curso no encontrado")
    ELSE [resp |-> Respuesta(200, "", <<>>, 0, 0, MatriculasPorCurso(db, c)),
          db |-> db]

(***************************************************************************)
(* The search routes.  Each answers 200 with the rows found (cuerpo holds  *)
(* their ids) or raises 404 when it finds none.  The detail of the name    *)
(* and title searches quotes the query; the model leaves the quote out.    *)
(***************************************************************************)
\* columna.ilike(f"%{patron}%"): patron occurs in texto, letter case aside
ilike(texto, patron) ==
    \E i \in 0..(Len(texto) - Len(patron)) :
        \A j \in 1..Len(patron) : upperChar(texto[i + j]) = upperChar(patron[j])

Hallados(db, cuerpo, detalle) ==
    IF cuerpo = {}
    THEN Falla(db, 404, detalle)
    ELSE [resp |-> Respuesta(200, "", <<>>, 0, 0, cuerpo), db |-> db]

\* estudiantes.py buscar_por_nombre
estudiantes_buscar_por_nombre(db, nombre) ==
    Hallados(db, {e \in DOMAIN db.estudiantes : ilike(db.estudiantes[e].nombre, nombre)},
             "No se encontraron estudiantes con ese nombre")

\* profesor.py buscar_por_nombre, buscar_por_titulo, buscar_por_departamento
profesor_buscar_por_nombre(db, nombre) ==
    Hallados(db, {p \in DOMAIN db.profesores : ilike(db.profesores[p].nombre, nombre)},
             "No se encontraron profesores con ese nombre")

profesor_buscar_por_titulo(db, titulo) ==
    Hallados(db, {p \in DOMAIN db.profesores : ilike(db.profesores[p].titulo, titulo)},
             "No se encontraron profesores con ese titulo")

profesor_buscar_por_departamento(db, departamento_id) ==
    IF departamento_id \notin DOMAIN db.departamentos
    THEN Falla(db, 404, "Departamento no encontrado")
    ELSE Hallados(db, {p \in DOMAIN db.profesores :
                         db.profesores[p].departamento_id = departamento_id},
                  "El departamento no tiene profesores")

\* departamento.py buscar_por_nombre
departamento_buscar_por_nombre(db, nombre) ==
    Hallados(db, {d \in DOMAIN db.departamentos : ilike(db.departamentos[d].nombre, nombre)},
             "No se encontraron departamentos con ese nombre")

\* buscar_por_nombre of a router that answers an empty search with 200 and an
\* empty list
curso_buscar_por_nombre_lista_vacia(db, nombre) ==
    [resp |-> Respuesta(200, "", <<>>, 0, 0,
                        {c \in DOMAIN db.cursos : ilike(db.cursos[c].nombre, nombre)}),
     db |-> db]

\* curso.py buscar_por_nombre, buscar_por_creditos, buscar_por_profesor,
\* buscar_por_departamento
curso_buscar_por_nombre(db, nombre) ==
    Hallados(db, {c \in DOMAIN db.cursos : ilike(db.cursos[c].nombre, nombre)},
             "No se encontraron cursos con ese nombre")

curso_buscar_por_creditos(db, creditos) ==
    IF creditos < 1 \/ creditos > 6
    THEN Falla(db, 400, "Los creditos deben estar entre 1 y 6")
    ELSE Hallados(db, {c \in DOMAIN db.cursos : db.cursos[c].creditos = creditos},
                  "No se encontraron cursos con esos creditos")

curso_buscar_por_profesor(db, profesor_id) ==
    IF profesor_id \notin DOMAIN db.profesores
    THEN Falla(db, 404, "Profesor no encontrado")
    ELSE Hallados(db, {c \in DOMAIN db.cursos : db.cursos[c].profesor_id = profesor_id},
                  "El profesor no tiene cursos asignados")

curso_buscar_por_departamento(db, departamento_id) ==
    IF departamento_id \notin DOMAIN db.departamentos
    THEN Falla(db, 404, "Departamento no encontrado")
    ELSE Hallados(db, {c \in DOMAIN db.cursos :
                         db.cursos[c].departamento_id = departamento_id},
                  "El departamento no tiene cursos")

(***************************************************************************)
(* Requests.                                                               *)
(***************************************************************************)
Cedulas(n) == Primeros(CedulasValidas, n)
Emails(n) == Primeros(EmailsValidos, n)
IdsEstudiante == 1..MaxEstudiantes
IdsProfesor == 1..MaxProfesores
IdsDepartamento == 1..MaxDepartamentos
IdsCurso == 1..MaxCursos

SolicitudesEstudiante ==
    [cedula : Cedulas(MaxEstudiantes), nombre : {NombreValido},
     email : Emails(MaxEstudiantes), semestre : {SemestreValido}, activo : BOOLEAN]
    \cup
    {[cedula |-> CedulaCorta, nombre |-> NombreConDigito, email |-> EmailSinPunto,
      semestre |-> SemestreFuera, activo |-> TRUE],
     [cedula |-> CedulaConLetra, nombre |-> EnBlancoTexto, email |-> EmailsValidos[1],
      semestre |-> SemestreNoNumero, activo |-> TRUE]}

ActualizacionesEstudiante ==
    {[activo |-> b] : b \in BOOLEAN}
    \cup {[email |-> x] : x \in Emails(MaxEstudiantes) \cup {EmailSinPunto}}
    \cup {[nombre |-> x] : x \in {EnBlancoTexto, NombreConDigito}}
    \cup {[nombre |-> NombreValido, semestre |-> x] : x \in {SemestreValido, SemestreFuera}}

SolicitudesProfesor ==
    [cedula : Cedulas(MaxProfesores), nombre : {NombreValido}, email : Emails(MaxProfesores),
     titulo : {TituloValido}, activo : BOOLEAN, departamento_id : IdsDepartamento]
    \cup
    {[cedula |-> CedulaConLetra, nombre |-> EnBlancoTexto, email |-> EmailSinPunto,
      titulo |-> EnBlancoTexto, activo |-> TRUE, departamento_id |-> 1]}

ActualizacionesProfesor ==
    {[activo |-> b] : b \in BOOLEAN}
    \cup {[departamento_id |-> d] : d \in IdsDepartamento}
    \cup {[email |-> x] : x \in Emails(MaxProfesores)}
    \cup {[titulo |-> EnBlancoTexto], [nombre |-> NombreConDigito]}

NombreDepartamento == <<"I", "n", "g">>
SolicitudesDepartamento ==
    [codigo : Primeros(CodigosDepartamento, MaxDepartamentos)
              \cup {upper(CodigosDepartamento[1]), CodigoLargo},
     nombre : {NombreDepartamento}]
    \cup {[codigo |-> CodigoConSimbolo, nombre |-> EnBlancoTexto]}

\* Codes as a client may write them: lower case, upper case, mixed
ConsultasCodigo ==
    UNION {{CodigosDepartamento[i], upper(CodigosDepartamento[i]),
            [CodigosDepartamento[i] EXCEPT ![1] = upperChar(@)]} :
           i \in 1..Len(CodigosDepartamento)}

ActualizacionesDepartamento == {[nombre |-> x] : x \in {NombreDepartamento, EnBlancoTexto}}

\* creditos inside and outside the range 1..6 of crear_curso
CreditosValidos == {3}
CreditosFuera == {7}
SolicitudesCurso ==
    [codigo : Primeros(CodigosCurso, MaxCursos), nombre : {NombreValido},
     creditos : CreditosValidos, horario : {HorarioValido},
     profesor_id : IdsProfesor, departamento_id : IdsDepartamento]
    \cup
    {[codigo |-> CodigosCurso[1], nombre |-> NombreValido, creditos |-> CHOOSE x \in CreditosFuera : TRUE,
      horario |-> HorarioValido, profesor_id |-> 1, departamento_id |-> 1],
     [codigo |-> EnBlancoTexto, nombre |-> NombreValido, creditos |-> CHOOSE x \in CreditosValidos : TRUE,
      horario |-> HorarioValido, profesor_id |-> 1, departamento_id |-> 1]}

ActualizacionesCurso ==
    {[profesor_id |-> p] : p \in IdsProfesor}
    \cup {[creditos |-> x] : x \in CreditosValidos \cup CreditosFuera}
    \cup {[nombre |-> EnBlancoTexto]}

(***************************************************************************)
(* The application: any request, one at a time.  A request commits the     *)
(* store its handler leaves; a request that fails leaves the store as it   *)
(* was.  Rows are created while the tables are within the bounds.          *)
(***************************************************************************)
DentroDeCotas(db) ==
    /\ DOMAIN db.estudiantes \subseteq IdsEstudiante
    /\ DOMAIN db.profesores \subseteq IdsProfesor
    /\ DOMAIN db.departamentos \subseteq IdsDepartamento
    /\ DOMAIN db.cursos \subseteq IdsCurso

Commit(sale) ==
    /\ DentroDeCotas(sale.db)
    /\ estudiantes' = sale.db.estudiantes
    /\ profesores' = sale.db.profesores
    /\ departamentos' = sale.db.departamentos
    /\ cursos' = sale.db.cursos
    /\ matriculas' = sale.db.matriculas
    /\ UNCHANGED sesiones

CrearEstudiante == \E req \in SolicitudesEstudiante : Commit(crear_estudiante(DB, req))
ActualizarEstudiante ==
    \E id \in IdsEstudiante, d \in ActualizacionesEstudiante :
        Commit(actualizar_estudiante(DB, id, d))
EliminarEstudiante == \E id \in IdsEstudiante : Commit(eliminar_estudiante(DB, id))
CrearProfesor == \E req \in SolicitudesProfesor : Commit(crear_profesor(DB, req))
ActualizarProfesor ==
    \E id \in IdsProfesor, d \in ActualizacionesProfesor :
        Commit(actualizar_profesor(DB, id, d))
EliminarProfesor == \E id \in IdsProfesor : Commit(eliminar_profesor(DB, id))
CrearDepartamento == \E req \in SolicitudesDepartamento : Commit(crear_departamento(DB, req))
ActualizarDepartamento ==
    \E id \in IdsDepartamento, d \in ActualizacionesDepartamento :
        Commit(actualizar_departamento(DB, id, d))
EliminarDepartamento == \E id \in IdsDepartamento : Commit(eliminar_departamento(DB, id))
CrearCurso == \E req \in SolicitudesCurso : Commit(crear_curso(DB, req))
ActualizarCurso ==
    \E id \in IdsCurso, d \in ActualizacionesCurso : Commit(actualizar_curso(DB, id, d))
EliminarCurso == \E id \in IdsCurso : Commit(eliminar_curso(DB, id))
MatricularEstudiante ==
    \E e \in IdsEstudiante, c \in IdsCurso : Commit(matricular_estudiante(DB, e, c))
DesmatricularEstudiante ==
    \E e \in IdsEstudiante, c \in IdsCurso : Commit(desmatricular_estudiante(DB, e, c))
ObtenerMatriculasEstudiante ==
    \E e \in IdsEstudiante : Commit(obtener_matriculas_estudiante(DB, e))
ObtenerMatriculasCurso == \E c \in IdsCurso : Commit(obtener_matriculas_curso(DB, c))
BuscarPorCodigo == \E codigo \in ConsultasCodigo : Commit(buscar_por_codigo(DB, codigo))

\* Queries of the search routes: a text that the stored names contain in
\* another letter case, the stored title's, and one that no stored text has;
\* creditos that courses have, that none has, and outside 1..6
ConsultasTexto == {<<"a", "N">>, <<"h", "d">>, <<"z">>}
ConsultasCreditos == CreditosValidos \cup {5} \cup CreditosFuera

BuscarEstudiantesPorNombre ==
    \E nombre \in ConsultasTexto : Commit(estudiantes_buscar_por_nombre(DB, nombre))
BuscarProfesoresPorNombre ==
    \E nombre \in ConsultasTexto : Commit(profesor_buscar_por_nombre(DB, nombre))
BuscarProfesoresPorTitulo ==
    \E titulo \in ConsultasTexto : Commit(profesor_buscar_por_titulo(DB, titulo))
BuscarProfesoresPorDepartamento ==
    \E d \in IdsDepartamento : Commit(profesor_buscar_por_departamento(DB, d))
BuscarDepartamentosPorNombre ==
    \E nombre \in ConsultasTexto : Commit(departamento_buscar_por_nombre(DB, nombre))
BuscarCursosPorNombre ==
    \E nombre \in ConsultasTexto : Commit(curso_buscar_por_nombre(DB, nombre))
BuscarCursosPorCreditos ==
    \E creditos \in ConsultasCreditos : Commit(curso_buscar_por_creditos(DB, creditos))
BuscarCursosPorProfesor ==
    \E p \in IdsProfesor : Commit(curso_buscar_por_profesor(DB, p))
BuscarCursosPorDepartamento ==
    \E d \in IdsDepartamento : Commit(curso_buscar_por_departamento(DB, d))

Next ==
    \/ CrearEstudiante
    \/ ActualizarEstudiante
    \/ EliminarEstudiante
    \/ CrearProfesor
    \/ ActualizarProfesor
    \/ EliminarProfesor
    \/ CrearDepartamento
    \/ ActualizarDepartamento
    \/ EliminarDepartamento
    \/ CrearCurso
    \/ ActualizarCurso
    \/ EliminarCurso
    \/ MatricularEstudiante
    \/ DesmatricularEstudiante
    \/ ObtenerMatriculasEstudiante
    \/ ObtenerMatriculasCurso
    \/ BuscarPorCodigo
    \/ BuscarEstudiantesPorNombre
    \/ BuscarProfesoresPorNombre
    \/ BuscarProfesoresPorTitulo
    \/ BuscarProfesoresPorDepartamento
    \/ BuscarDepartamentosPorNombre
    \/ BuscarCursosPorNombre
    \/ BuscarCursosPorCreditos
    \/ BuscarCursosPorProfesor
    \/ BuscarCursosPorDepartamento

Spec == Init /\ [][Next]_vars

(***************************************************************************)
(* The staff: the department and professor routes alone, with room for     *)
(* more than one professor.                                                *)
(***************************************************************************)
IdsProfesorPlantilla == 1..MaxProfesoresPlantilla

SolicitudesProfesorPlantilla ==
    [cedula : Cedulas(MaxProfesoresPlantilla), nombre : {NombreValido},
     email : Emails(MaxProfesoresPlantilla), titulo : {TituloValido},
     activo : BOOLEAN, departamento_id : IdsDepartamento]

ActualizacionesProfesorPlantilla ==
    {[activo |-> b] : b \in BOOLEAN}
    \cup {[email |-> x] : x \in Emails(MaxProfesoresPlantilla + 1) \cup {EmailSinPunto}}
    \cup {[nombre |-> NombreConDigito]}

CommitPlantilla(sale) ==
    /\ DOMAIN sale.db.profesores \subseteq IdsProfesorPlantilla
    /\ DOMAIN sale.db.departamentos \subseteq IdsDepartamento
    /\ profesores' = sale.db.profesores
    /\ departamentos' = sale.db.departamentos
    /\ UNCHANGED <<estudiantes, cursos, matriculas, sesiones>>

PlantillaCrearDepartamento ==
    \E req \in SolicitudesDepartamento : CommitPlantilla(crear_departamento(DB, req))
PlantillaEliminarDepartamento ==
    \E id \in IdsDepartamento : CommitPlantilla(eliminar_departamento(DB, id))
PlantillaCrearProfesor ==
    \E req \in SolicitudesProfesorPlantilla : CommitPlantilla(crear_profesor(DB, req))
PlantillaActualizarProfesor ==
    \E id \in IdsProfesorPlantilla, d \in ActualizacionesProfesorPlantilla :
        CommitPlantilla(actualizar_profesor(DB, id, d))
PlantillaEliminarProfesor ==
    \E id \in IdsProfesorPlantilla : CommitPlantilla(eliminar_profesor(DB, id))

NextPlantilla ==
    \/ PlantillaCrearDepartamento
    \/ PlantillaEliminarDepartamento
    \/ PlantillaCrearProfesor
    \/ PlantillaActualizarProfesor
    \/ PlantillaEliminarProfesor

SpecPlantilla == Init /\ [][NextPlantilla]_vars

(***************************************************************************)
(* Concurrent enrollment.  The routes are plain functions, which the       *)
(* server runs on worker threads, each with its own session: the reads of  *)
(* matricular_estudiante and its commit are separate steps, and another    *)
(* request may commit between them.  The store starts with students and    *)
(* courses created through the handlers.                                   *)
(***************************************************************************)
AlmacenVacio ==
    [estudiantes |-> <<>>, profesores |-> <<>>, departamentos |-> <<>>,
     cursos |-> <<>>, matriculas |-> {}]

SolicitudEstudianteNumero(i) ==
    [cedula |-> CedulasValidas[i], nombre |-> NombreValido, email |-> EmailsValidos[i],
     semestre |-> SemestreValido, activo |-> TRUE]
SolicitudCursoNumero(i) ==
    [codigo |-> CodigosCurso[i], nombre |-> NombreValido,
     creditos |-> CHOOSE x \in CreditosValidos : TRUE, horario |-> HorarioValido,
     profesor_id |-> 1, departamento_id |-> 1]

RECURSIVE ConEstudiantes(_, _)
ConEstudiantes(db, n) ==
    IF n = 0 THEN db
    ELSE crear_estudiante(ConEstudiantes(db, n - 1), SolicitudEstudianteNumero(n)).db
RECURSIVE ConCursos(_, _)
ConCursos(db, n) ==
    IF n = 0 THEN db
    ELSE crear_curso(ConCursos(db, n - 1), SolicitudCursoNumero(n)).db

AlmacenPoblado ==
    LET conDepartamento ==
            crear_departamento(ConEstudiantes(AlmacenVacio, MaxEstudiantes),
                [codigo |-> CodigosDepartamento[1], nombre |-> NombreDepartamento]).db
        conProfesor ==
            crear_profesor(conDepartamento,
                [cedula |-> CedulasValidas[1], nombre |-> NombreValido,
                 email |-> EmailsValidos[1], titulo |-> TituloValido, activo |-> TRUE,
                 departamento_id |-> 1]).db
    IN  ConCursos(conProfesor, MaxCursos)

InitConcurrente ==
    /\ estudiantes = AlmacenPoblado.estudiantes
    /\ profesores = AlmacenPoblado.profesores
    /\ departamentos = AlmacenPoblado.departamentos
    /\ cursos = AlmacenPoblado.cursos
    /\ matriculas = AlmacenPoblado.matriculas
    /\ sesiones = [p \in Peticiones |-> Libre]

\* A worker takes a request and runs the reads of matricular_estudiante
Verificar(p) ==
    /\ sesiones[p].fase = "libre"
    /\ \E e \in 1..(MaxEstudiantes + 1), c \in IdsCurso :
          LET rechazo == RechazoMatricular(DB, e, c)
          IN  sesiones' = [sesiones EXCEPT ![p] =
                  IF rechazo # <<>>
                  THEN [fase |-> "fin", e |-> e, c |-> c, status |-> rechazo[1]]
                  ELSE [fase |-> "verificado", e |-> e, c |-> c, status |-> 0]]
    /\ UNCHANGED <<estudiantes, profesores, departamentos, cursos, matriculas>>

\* The worker adds the row and commits
Confirmar(p) ==
    /\ sesiones[p].fase = "verificado"
    /\ LET sale == ConfirmarMatricula(DB, sesiones[p].e, sesiones[p].c)
       IN  /\ matriculas' = sale.db.matriculas
           /\ sesiones' = [sesiones EXCEPT ![p].fase = "fin",
                                           ![p].status = sale.resp.status]
    /\ UNCHANGED <<estudiantes, profesores, departamentos, cursos>>

NextConcurrente == \E p \in Peticiones : Verificar(p) \/ Confirmar(p)

SpecConcurrente == InitConcurrente /\ [][NextConcurrente]_vars

(***************************************************************************)
(* Enrollment concurrent with deactivation.  eliminar_estudiante and       *)
(* eliminar_curso read the row, its flag and its enrollments, then delete  *)
(* the enrollments they read, clear the flag and commit; a worker running  *)
(* matricular_estudiante may read or commit between the two steps.  The    *)
(* session of a deactivation in flight holds what it read: the kind of     *)
(* entity, its id and the enrollments to delete.                           *)
(***************************************************************************)
\* The reads of eliminar_estudiante: the row, estudiante.activo, and the
\* enrollments selected when estudiante.cursos is not empty
LeerBajaEstudiante(p) ==
    /\ sesiones[p].fase = "libre"
    /\ \E id \in IdsEstudiante :
          sesiones' = [sesiones EXCEPT ![p] =
              IF id \notin DOMAIN estudiantes
              THEN [fase |-> "fin", e |-> id, c |-> 0, status |-> 404]
              ELSE IF ~estudiantes[id].activo
              THEN [fase |-> "fin", e |-> id, c |-> 0, status |-> 400]
              ELSE [fase |-> "baja", tipo |-> "estudiante", id |-> id,
                    filas |-> IF Cardinality(CursosDeEstudiante(DB, id)) > 0
                              THEN MatriculasPorEstudiante(DB, id) ELSE {}]]
    /\ UNCHANGED <<estudiantes, profesores, departamentos, cursos, matriculas>>

\* The reads of eliminar_curso
LeerBajaCurso(p) ==
    /\ sesiones[p].fase = "libre"
    /\ \E id \in IdsCurso :
          sesiones' = [sesiones EXCEPT ![p] =
              IF id \notin DOMAIN cursos
              THEN [fase |-> "fin", e |-> 0, c |-> id, status |-> 404]
              ELSE IF ~cursos[id].activo
              THEN [fase |-> "fin", e |-> 0, c |-> id, status |-> 400]
              ELSE [fase |-> "baja", tipo |-> "curso", id |-> id,
                    filas |-> IF Cardinality(EstudiantesDeCurso(DB, id)) > 0
                              THEN MatriculasPorCurso(DB, id) ELSE {}]]
    /\ UNCHANGED <<estudiantes, profesores, departamentos, cursos, matriculas>>

\* session.delete of each enrollment read, the flag cleared, session.commit()
ConfirmarBaja(p) ==
    /\ sesiones[p].fase = "baja"
    /\ matriculas' = matriculas \ sesiones[p].filas
    /\ IF sesiones[p].tipo = "estudiante"
       THEN /\ estudiantes' = [estudiantes EXCEPT ![sesiones[p].id].activo = FALSE]
            /\ cursos' = cursos
            /\ sesiones' = [sesiones EXCEPT ![p] =
                   [fase |-> "fin", e |-> sesiones[p].id, c |-> 0, status |-> 200]]
       ELSE /\ cursos' = [cursos EXCEPT ![sesiones[p].id].activo = FALSE]
            /\ estudiantes' = estudiantes
            /\ sesiones' = [sesiones EXCEPT ![p] =
                   [fase |-> "fin", e |-> 0, c |-> sesiones[p].id, status |-> 200]]
    /\ UNCHANGED <<profesores, departamentos>>

NextBaja ==
    \E p \in Peticiones :
        \/ Verificar(p)
        \/ Confirmar(p)
        \/ LeerBajaEstudiante(p)
        \/ LeerBajaCurso(p)
        \/ ConfirmarBaja(p)

SpecBaja == InitConcurrente /\ [][NextBaja]_vars

(***************************************************************************)
(* Properties.  A call sequence is the composition of the handlers: the    *)
(* second call runs on the store the first one leaves.                     *)
(***************************************************************************)
AlreadyEnrolled(resp) ==
    resp.status = 409 /\ resp.detalle = "El estudiante ya esta matriculado en este curso"
ParaPar(ms, e, c) == {m \in ms : m.estudiante_id = e /\ m.curso_id = c}

\* C1: for every existing student S and course C without an enrollment (S,C),
\* a successful enroll(S,C) followed at once by a second enroll(S,C) makes the
\* second call fail with AlreadyEnrolled, and after both calls exactly one
\* enrollment for (S,C) is stored.
C1_SegundaMatriculaRechazada ==
    \A e \in DOMAIN estudiantes, c \in DOMAIN cursos :
        LET primera == matricular_estudiante(DB, e, c)
            segunda == matricular_estudiante(primera.db, e, c)
        IN  ParaPar(matriculas, e, c) = {} =>
                /\ primera.resp.status = 201
                /\ AlreadyEnrolled(segunda.resp)
                /\ segunda.db = primera.db
                /\ Cardinality(ParaPar(segunda.db.matriculas, e, c)) = 1

\* C1 case: the pair is enrolled by a first call, the student keeps another
\* enrollment, and the repeated call is refused
C1_Witness ==
    \E e \in DOMAIN estudiantes, c \in DOMAIN cursos :
        /\ matriculas = matricular_estudiante(
                            [DB EXCEPT !.matriculas = @ \ ParaPar(@, e, c)], e, c).db.matriculas
        /\ ParaPar(matriculas, e, c) # {}
        /\ Cardinality(MatriculasPorEstudiante(DB, e)) = 2
        /\ AlreadyEnrolled(matricular_estudiante(DB, e, c).resp)

AlreadyInactive(resp, detalle) == resp.status = 400 /\ resp.detalle = detalle

\* C2: deactivating an active student S that has N enrollments removes exactly
\* those N rows (afterwards no enrollment references S, the other rows stay),
\* sets S inactive and reports N; deactivating S again fails with
\* AlreadyInactive and changes nothing.
C2_DesactivarEstudiante ==
    \A id \in DOMAIN estudiantes :
        LET N == Cardinality({m \in matriculas : m.estudiante_id = id})
            primera == eliminar_estudiante(DB, id)
            segunda == eliminar_estudiante(primera.db, id)
        IN  estudiantes[id].activo =>
                /\ primera.resp.status = 200
                /\ primera.resp.n = N
                /\ primera.db.matriculas = {m \in matriculas : m.estudiante_id # id}
                /\ Cardinality(primera.db.matriculas) = Cardinality(matriculas) - N
                /\ primera.db.estudiantes = [estudiantes EXCEPT ![id].activo = FALSE]
                /\ primera.db.cursos = cursos
                /\ primera.db.profesores = profesores
                /\ primera.db.departamentos = departamentos
                /\ AlreadyInactive(segunda.resp, "El estudiante ya esta inactivo")
                /\ segunda.db = primera.db

\* C2 case: an active student with two enrollments, next to an enrollment of
\* another student, is deactivated and then deactivated again
C2_Witness ==
    \E id \in DOMAIN estudiantes :
        /\ estudiantes[id].activo
        /\ Cardinality(MatriculasPorEstudiante(DB, id)) = 2
        /\ Cardinality(matriculas) > 2
        /\ eliminar_estudiante(DB, id).resp.n = 2
        /\ eliminar_estudiante(eliminar_estudiante(DB, id).db, id).resp.status = 400

\* C3: deactivating an active course C removes every enrollment referencing C
\* (afterwards none references C, the other rows stay), sets C inactive and
\* reports the number of enrollments removed; deactivating an already inactive
\* course fails with AlreadyInactive and changes nothing.
C3_DesactivarCurso ==
    \A id \in DOMAIN cursos :
        LET N == Cardinality({m \in matriculas : m.curso_id = id})
            r == eliminar_curso(DB, id)
        IN  IF cursos[id].activo
            THEN /\ r.resp.status = 200
                 /\ r.resp.n = N
                 /\ r.db.matriculas = {m \in matriculas : m.curso_id # id}
                 /\ r.db.cursos = [cursos EXCEPT ![id].activo = FALSE]
                 /\ r.db.estudiantes = estudiantes
                 /\ r.db.profesores = profesores
                 /\ r.db.departamentos = departamentos
                 /\ AlreadyInactive(eliminar_curso(r.db, id).resp, "El curso ya esta inactivo")
                 /\ eliminar_curso(r.db, id).db = r.db
            ELSE /\ AlreadyInactive(r.resp, "El curso ya esta inactivo")
                 /\ r.db = DB

\* C3 case: an active course with two enrolled students, next to an enrollment
\* in another course, is deactivated and then deactivated again
C3_Witness ==
    \E id \in DOMAIN cursos :
        /\ cursos[id].activo
        /\ Cardinality(MatriculasPorCurso(DB, id)) = 2
        /\ Cardinality(matriculas) > 2
        /\ eliminar_curso(DB, id).resp.n = 2
        /\ eliminar_curso(eliminar_curso(DB, id).db, id).resp.status = 400

HasDependents(resp, detalles) == resp.status = 400 /\ resp.detalle \in detalles

\* C4: deleting a department that at least one professor or at least one
\* course references fails with HasDependents and the row remains; deleting a
\* department that no professor and no course references succeeds and removes
\* the row, and only that row.
C4_EliminarDepartamento ==
    \A id \in DOMAIN departamentos :
        LET r == eliminar_departamento(DB, id)
            referenciado ==
                \/ \E p \in DOMAIN profesores : profesores[p].departamento_id = id
                \/ \E c \in DOMAIN cursos : cursos[c].departamento_id = id
        IN  IF referenciado
            THEN /\ HasDependents(r.resp,
                      {"No se puede eliminar el departamento porque tiene profesor(es) asignado(s)",
                       "No se puede eliminar el departamento porque tiene curso(s) asignado(s)"})
                 /\ r.db = DB
            ELSE /\ r.resp.status = 204
                 /\ DOMAIN r.db.departamentos = DOMAIN departamentos \ {id}
                 /\ \A d \in DOMAIN r.db.departamentos : r.db.departamentos[d] = departamentos[d]
                 /\ r.db.profesores = profesores
                 /\ r.db.cursos = cursos
                 /\ r.db.estudiantes = estudiantes
                 /\ r.db.matriculas = matriculas

\* C4 case: the only reference to the department is an inactive professor, and
\* the deletion is refused
C4_Witness ==
    \E id \in DOMAIN departamentos :
        /\ \E p \in DOMAIN profesores : profesores[p].departamento_id = id
        /\ \A p \in DOMAIN profesores : ~profesores[p].activo
        /\ cursos = <<>>
        /\ eliminar_departamento(DB, id).resp.status = 400
        /\ id \in DOMAIN eliminar_departamento(DB, id).db.departamentos

\* The checks of a course request that come before the professor is resolved
CursoBienFormado(req) ==
    /\ strip(req.codigo) # <<>>
    /\ \A c \in DOMAIN cursos : cursos[c].codigo # req.codigo
    /\ strip(req.nombre) # <<>>
    /\ req.creditos \in 1..6
    /\ strip(req.horario) # <<>>

\* C5: a course is assigned only a professor that exists and is active at that
\* time.  Creating a course whose profesor_id names an inactive professor fails
\* (with 400 "El profesor no esta activo" when nothing before it is wrong) and
\* creates no course; updating a course to reassign it to an inactive professor
\* fails and leaves the course unchanged; the create with an active professor
\* and an existing department succeeds and the stored course carries the given
\* profesor_id and departamento_id.
C5_ProfesorActivoAlAsignar ==
    /\ \A req \in SolicitudesCurso :
        LET r == crear_curso(DB, req)
            existe == req.profesor_id \in DOMAIN profesores
        IN  /\ (existe /\ ~profesores[req.profesor_id].activo) =>
                    /\ r.resp.status \notin Exitos
                    /\ r.db = DB
                    /\ CursoBienFormado(req) =>
                          r.resp.status = 400 /\ r.resp.detalle = "El profesor no esta activo"
            /\ r.resp.status \in Exitos => existe /\ profesores[req.profesor_id].activo
            /\ ( /\ CursoBienFormado(req)
                 /\ existe /\ profesores[req.profesor_id].activo
                 /\ req.departamento_id \in DOMAIN departamentos ) =>
                    /\ r.resp.status = 201
                    /\ DOMAIN r.db.cursos = DOMAIN cursos \cup {r.resp.id}
                    /\ r.resp.id \notin DOMAIN cursos
                    /\ \A c \in DOMAIN cursos : r.db.cursos[c] = cursos[c]
                    /\ r.db.cursos[r.resp.id].profesor_id = req.profesor_id
                    /\ r.db.cursos[r.resp.id].departamento_id = req.departamento_id
    /\ \A id \in DOMAIN cursos, d \in ActualizacionesCurso :
        LET r == actualizar_curso(DB, id, d)
        IN  "profesor_id" \in DOMAIN d =>
              IF d["profesor_id"] \in DOMAIN profesores /\ profesores[d["profesor_id"]].activo
              THEN r.resp.status = 200 /\ r.db.cursos[id].profesor_id = d["profesor_id"]
              ELSE r.resp.status \notin Exitos /\ r.db = DB

\* C5 case: the professor of a stored course has become inactive; a well-formed
\* create naming that professor and a reassignment to that professor are refused
C5_Witness ==
    \E p \in DOMAIN profesores, c \in DOMAIN cursos :
        /\ ~profesores[p].activo
        /\ cursos[c].profesor_id = p
        /\ \E req \in SolicitudesCurso :
              /\ req.profesor_id = p
              /\ CursoBienFormado(req)
              /\ crear_curso(DB, req).resp.detalle = "El profesor no esta activo"
        /\ actualizar_curso(DB, c, [profesor_id |-> p]).resp.status = 400

C7_DesmatricularSinMatricula ==
    \A e \in IdsEstudiante, c \in IdsCurso :
        LET r == desmatricular_estudiante(DB, e, c)
        IN  ParaPar(matriculas, e, c) = {} =>
                /\ r.resp.status = 404
                /\ r.resp.detalle = "Matricula no encontrada"
                /\ r.db = DB

\* C7 case: the student and the course exist and the student is enrolled in
\* another course only; the withdrawal from the course is refused
C7_Witness ==
    \E e \in DOMAIN estudiantes, c \in DOMAIN cursos :
        /\ ParaPar(matriculas, e, c) = {}
        /\ MatriculasPorEstudiante(DB, e) # {}
        /\ desmatricular_estudiante(DB, e, c).resp.status = 404

\* C8: after a successful enroll(S,C), list_by_student(S) contains the
\* enrollment for C exactly once; after a successful enroll(S,C) followed by
\* withdraw(S,C), list_by_student(S) contains no enrollment for C, and the
\* enrollments of S for the other courses are those from before the enroll.
C8_ListaTrasMatricularYDesmatricular ==
    \A e \in IdsEstudiante, c \in IdsCurso :
        LET antes == obtener_matriculas_estudiante(DB, e)
            matricula == matricular_estudiante(DB, e, c)
            lista == obtener_matriculas_estudiante(matricula.db, e)
            retiro == desmatricular_estudiante(matricula.db, e, c)
            despues == obtener_matriculas_estudiante(retiro.db, e)
        IN  matricula.resp.status \in Exitos =>
                /\ lista.resp.status = 200
                /\ Cardinality({m \in lista.resp.cuerpo : m.curso_id = c}) = 1
                /\ \A m \in lista.resp.cuerpo : m.estudiante_id = e
                /\ retiro.resp.status = 204
                /\ despues.resp.status = 200
                /\ {m \in despues.resp.cuerpo : m.curso_id = c} = {}
                /\ {m \in despues.resp.cuerpo : m.curso_id # c}
                       = {m \in antes.resp.cuerpo : m.curso_id # c}

\* C8 case: a student enrolled in one course is enrolled in a second one and
\* withdrawn from it; the listing then holds the first enrollment alone
C8_Witness ==
    \E e \in DOMAIN estudiantes, c \in DOMAIN cursos :
        LET matricula == matricular_estudiante(DB, e, c)
            retiro == desmatricular_estudiante(matricula.db, e, c)
        IN  /\ Cardinality(MatriculasPorEstudiante(DB, e)) = 1
            /\ matricula.resp.status = 201
            /\ Cardinality(obtener_matriculas_estudiante(matricula.db, e).resp.cuerpo) = 2
            /\ retiro.resp.status = 204
            /\ obtener_matriculas_estudiante(retiro.db, e).resp.cuerpo
                   = MatriculasPorEstudiante(DB, e)

\* C9: list_by_student and list_by_course fail with NotFound when the student
\* or the course does not exist; when it exists they succeed with exactly the
\* enrollments referencing it, the empty list when there are none, as
\* list_by_course(C) after the only enrolled student of C was deactivated.
C9_ListasDeMatriculas ==
    /\ \A e \in IdsEstudiante :
        LET r == obtener_matriculas_estudiante(DB, e)
        IN  /\ r.db = DB
            /\ IF e \in DOMAIN estudiantes
               THEN /\ r.resp.status = 200
                    /\ r.resp.cuerpo = {m \in matriculas : m.estudiante_id = e}
               ELSE r.resp.status = 404 /\ r.resp.detalle = "Estudiante no encontrado"
    /\ \A c \in IdsCurso :
        LET r == obtener_matriculas_curso(DB, c)
        IN  /\ r.db = DB
            /\ IF c \in DOMAIN cursos
               THEN /\ r.resp.status = 200
                    /\ r.resp.cuerpo = {m \in matriculas : m.curso_id = c}
               ELSE r.resp.status = 404 /\ r.resp.detalle = "Curso no encontrado"
    /\ \A c \in DOMAIN cursos, e \in DOMAIN estudiantes :
        LET baja == eliminar_estudiante(DB, e)
            lista == obtener_matriculas_curso(baja.db, c)
        IN  ( /\ estudiantes[e].activo
              /\ \A m \in matriculas : m.curso_id = c => m.estudiante_id = e ) =>
                lista.resp.status = 200 /\ lista.resp.cuerpo = {}

\* C9 case: a course whose only enrolled student is deactivated, with one
\* removal reported, lists no enrollment afterwards
C9_Witness ==
    \E c \in DOMAIN cursos, e \in DOMAIN estudiantes :
        LET baja == eliminar_estudiante(DB, e)
        IN  /\ MatriculasPorCurso(DB, c) = ParaPar(matriculas, e, c)
            /\ MatriculasPorEstudiante(DB, e) = ParaPar(matriculas, e, c)
            /\ ParaPar(matriculas, e, c) # {}
            /\ baja.resp.status = 200
            /\ baja.resp.n = 1
            /\ obtener_matriculas_curso(baja.db, c).resp.status = 200
            /\ obtener_matriculas_curso(baja.db, c).resp.cuerpo = {}

\* C10: enroll(S,C) succeeds only if student S and course C both exist; on
\* success it adds exactly one enrollment (S,C), whose nota_final and aprobado
\* are both null; if S or C does not exist it fails with StudentNotFound or
\* CourseNotFound (404) and adds no enrollment.
C10_MatricularExigeEstudianteYCurso ==
    \A e \in IdsEstudiante, c \in IdsCurso :
        LET r == matricular_estudiante(DB, e, c)
            nuevas == r.db.matriculas \ matriculas
        IN  /\ r.resp.status \in Exitos => e \in DOMAIN estudiantes /\ c \in DOMAIN cursos
            /\ r.resp.status \in Exitos =>
                  /\ matriculas \subseteq r.db.matriculas
                  /\ Cardinality(nuevas) = 1
                  /\ \A m \in nuevas :
                        /\ m.estudiante_id = e /\ m.curso_id = c
                        /\ m.nota_final = NULL /\ m.aprobado = NULL
                  /\ r.db = [DB EXCEPT !.matriculas = r.db.matriculas]
            /\ e \notin DOMAIN estudiantes =>
                  /\ r.resp.status = 404 /\ r.resp.detalle = "Estudiante no encontrado"
                  /\ r.db = DB
            /\ (e \in DOMAIN estudiantes /\ c \notin DOMAIN cursos) =>
                  /\ r.resp.status = 404 /\ r.resp.detalle = "Curso no encontrado"
                  /\ r.db = DB

\* C10 case: an enrollment with null grade and pass flag is stored, and an
\* enroll naming a student that does not exist is refused with 404
C10_Witness ==
    /\ \E m \in matriculas :
          /\ m.nota_final = NULL /\ m.aprobado = NULL
          /\ m \in matricular_estudiante(
                       [DB EXCEPT !.matriculas = @ \ {m}], m.estudiante_id, m.curso_id
                   ).resp.cuerpo
    /\ \E e \in IdsEstudiante \ DOMAIN estudiantes, c \in DOMAIN cursos :
          matricular_estudiante(DB, e, c).resp.status = 404

\* C11: enroll(S,C) fails with StudentInactive and creates no enrollment
\* whenever student S exists but is inactive.
C11_MatriculaDeEstudianteInactivo ==
    \A e \in DOMAIN estudiantes, c \in IdsCurso :
        LET r == matricular_estudiante(DB, e, c)
        IN  ~estudiantes[e].activo =>
                /\ r.resp.status \notin Exitos
                /\ r.db = DB

\* C12: enroll(S,C) fails and creates no enrollment whenever course C exists
\* but is inactive.
C12_MatriculaEnCursoInactivo ==
    \A e \in IdsEstudiante, c \in DOMAIN cursos :
        LET r == matricular_estudiante(DB, e, c)
        IN  ~cursos[c].activo =>
                /\ r.resp.status \notin Exitos
                /\ r.db = DB

\* The messages a response reports: its list of errors, or its single detail
Reportados(resp) ==
    {resp.errores[i] : i \in DOMAIN resp.errores}
    \cup (IF resp.detalle \in {"", "Errores de validacion"} THEN {} ELSE {resp.detalle})

\* C13: when more than one enroll precondition fails in the same call (the
\* student does not exist and the course does not exist), enroll reports all
\* of those failures together in one error, and creates no enrollment.
C13_MatriculaReportaTodasLasFallas ==
    \A e \in IdsEstudiante, c \in IdsCurso :
        LET r == matricular_estudiante(DB, e, c)
        IN  (e \notin DOMAIN estudiantes /\ c \notin DOMAIN cursos) =>
                /\ r.resp.status \notin Exitos
                /\ r.db = DB
                /\ {"Estudiante no encontrado", "Curso no encontrado"}
                       \subseteq Reportados(r.resp)

\* No row of the table that is inactive before the step is active after it
SigueInactivo(antes, despues) ==
    \A id \in DOMAIN antes :
        (~antes[id].activo /\ id \in DOMAIN despues) => ~despues[id].activo

\* C14: inactive is terminal: for every student, professor and course, once
\* its active flag is false no operation sets it back to true.
C14_InactivoEsTerminal ==
    [][ /\ SigueInactivo(estudiantes, estudiantes')
        /\ SigueInactivo(profesores, profesores')
        /\ SigueInactivo(cursos, cursos') ]_vars

\* C15: every student, professor and course is active right after its
\* successful creation, whatever the create request contains.
C15_CreadoActivo ==
    /\ \A req \in SolicitudesEstudiante :
          LET r == crear_estudiante(DB, req)
          IN  r.resp.status \in Exitos => r.db.estudiantes[r.resp.id].activo
    /\ \A req \in SolicitudesProfesor :
          LET r == crear_profesor(DB, req)
          IN  r.resp.status \in Exitos => r.db.profesores[r.resp.id].activo
    /\ \A req \in SolicitudesCurso :
          LET r == crear_curso(DB, req)
          IN  r.resp.status \in Exitos => r.db.cursos[r.resp.id].activo

\* A call that fails leaves the store as it found it
SinEscritura(r) == r.resp.status \notin Exitos => r.db = DB

\* C16: no partial writes: every operation that ends in a failure leaves the
\* stored students, professors, departments, courses and enrollments exactly
\* as they were before the call.
C16_SinEscriturasParciales ==
    /\ \A req \in SolicitudesEstudiante : SinEscritura(crear_estudiante(DB, req))
    /\ \A id \in IdsEstudiante, d \in ActualizacionesEstudiante :
          SinEscritura(actualizar_estudiante(DB, id, d))
    /\ \A id \in IdsEstudiante : SinEscritura(eliminar_estudiante(DB, id))
    /\ \A req \in SolicitudesProfesor : SinEscritura(crear_profesor(DB, req))
    /\ \A id \in IdsProfesor, d \in ActualizacionesProfesor :
          SinEscritura(actualizar_profesor(DB, id, d))
    /\ \A id \in IdsProfesor : SinEscritura(eliminar_profesor(DB, id))
    /\ \A req \in SolicitudesDepartamento : SinEscritura(crear_departamento(DB, req))
    /\ \A id \in IdsDepartamento, d \in ActualizacionesDepartamento :
          SinEscritura(actualizar_departamento(DB, id, d))
    /\ \A id \in IdsDepartamento : SinEscritura(eliminar_departamento(DB, id))
    /\ \A req \in SolicitudesCurso : SinEscritura(crear_curso(DB, req))
    /\ \A id \in IdsCurso, d \in ActualizacionesCurso :
          SinEscritura(actualizar_curso(DB, id, d))
    /\ \A id \in IdsCurso : SinEscritura(eliminar_curso(DB, id))
    /\ \A e \in IdsEstudiante, c \in IdsCurso :
          /\ SinEscritura(matricular_estudiante(DB, e, c))
          /\ SinEscritura(desmatricular_estudiante(DB, e, c))
    /\ \A e \in IdsEstudiante : SinEscritura(obtener_matriculas_estudiante(DB, e))
    /\ \A c \in IdsCurso : SinEscritura(obtener_matriculas_curso(DB, c))
    /\ \A codigo \in ConsultasCodigo : SinEscritura(buscar_por_codigo(DB, codigo))

\* C16 case: a store on which a repeated enroll (409), the deactivation of a
\* professor with courses (400), the deletion of a referenced department
\* (400), the deactivation of an inactive student (400), an update with an
\* unknown id (404) and a create with invalid fields (400) all fail
C16_Witness ==
    /\ \E e \in DOMAIN estudiantes, c \in DOMAIN cursos :
          matricular_estudiante(DB, e, c).resp.status = 409
    /\ \E p \in DOMAIN profesores :
          profesores[p].activo /\ eliminar_profesor(DB, p).resp.status = 400
    /\ \E d \in DOMAIN departamentos : eliminar_departamento(DB, d).resp.status = 400
    /\ \E e \in DOMAIN estudiantes :
          ~estudiantes[e].activo /\ eliminar_estudiante(DB, e).resp.status = 400
    /\ \E id \in IdsEstudiante, d \in ActualizacionesEstudiante :
          actualizar_estudiante(DB, id, d).resp.status = 404
    /\ \E req \in SolicitudesEstudiante :
          Len(crear_estudiante(DB, req).resp.errores) > 1

\* The requests that have answered 201 for the pair
Exitosas(e, c) ==
    {p \in Peticiones : /\ sesiones[p].fase = "fin"
                        /\ sesiones[p].e = e /\ sesiones[p].c = c
                        /\ sesiones[p].status = 201}

\* C17: when enroll(S,C) requests for the same pair run concurrently and pass
\* the existence check before either commits, the primary key on (student,
\* course) arbitrates: at most one enrollment for (S,C) is stored and at most
\* one of the requests succeeds.
C17_ClavePrimariaArbitra ==
    \A e \in IdsEstudiante, c \in IdsCurso :
        /\ Cardinality(ParaPar(matriculas, e, c)) <= 1
        /\ Cardinality(Exitosas(e, c)) <= 1
        /\ Exitosas(e, c) # {} => ParaPar(matriculas, e, c) # {}

\* C17 case: two requests for one pair both passed the check; one committed
\* with 201 and the store refused the other
C17_Witness ==
    \E p, q \in Peticiones :
        /\ p # q
        /\ sesiones[p].fase = "fin" /\ sesiones[q].fase = "fin"
        /\ sesiones[p].e = sesiones[q].e /\ sesiones[p].c = sesiones[q].c
        /\ sesiones[p].status = 201
        /\ sesiones[q].status = 500
        /\ Cardinality(ParaPar(matriculas, sesiones[p].e, sesiones[p].c)) = 1

\* Two codes that differ at most in the case of their letters
IgualSinCaja(a, b) ==
    /\ Len(a) = Len(b)
    /\ \A i \in 1..Len(a) :
          \/ a[i] = b[i]
          \/ \E k \in 1..Len(LetrasMin) : {a[i], b[i]} = {LetrasMin[k], LetrasMay[k]}
SinMinusculas(s) ==
    \A i \in 1..Len(s) : \A k \in 1..Len(LetrasMin) : s[i] # LetrasMin[k]

\* C18: department codes are uppercased before the uniqueness check and
\* before they are stored, and lookups uppercase their key: every stored code
\* is uppercase, creating a department whose code differs from a stored one
\* only by letter case fails as a duplicate, and the lookup by code finds a
\* department whatever the case of the query.
C18_CodigoEnMayusculas ==
    /\ \A d \in DOMAIN departamentos : SinMinusculas(departamentos[d].codigo)
    /\ \A d \in DOMAIN departamentos, codigo \in ConsultasCodigo :
          IgualSinCaja(codigo, departamentos[d].codigo) =>
              LET r == crear_departamento(DB, [codigo |-> codigo, nombre |-> NombreDepartamento])
                  b == buscar_por_codigo(DB, codigo)
              IN  /\ r.resp.status = 400
                  /\ Reportados(r.resp) = {"El codigo del departamento ya existe"}
                  /\ r.db = DB
                  /\ b.resp.status = 200
                  /\ b.resp.id = d
    /\ \A codigo \in ConsultasCodigo :
          LET r == crear_departamento(DB, [codigo |-> codigo, nombre |-> NombreDepartamento])
          IN  r.resp.status \in Exitos =>
                  /\ SinMinusculas(r.db.departamentos[r.resp.id].codigo)
                  /\ IgualSinCaja(r.db.departamentos[r.resp.id].codigo, codigo)

\* C18 case: a department sent in lower case is stored in upper case; the
\* same code in lower and in mixed case is refused as a duplicate and found
\* by the lookup
C18_Witness ==
    \E d \in DOMAIN departamentos :
        /\ departamentos[d].codigo = upper(CodigosDepartamento[1])
        /\ \A codigo \in {CodigosDepartamento[1],
                          [CodigosDepartamento[1] EXCEPT ![1] = upperChar(@)]} :
              /\ codigo # departamentos[d].codigo
              /\ crear_departamento(DB, [codigo |-> codigo, nombre |-> NombreDepartamento]
                                   ).resp.errores = <<"El codigo del departamento ya existe">>
              /\ buscar_por_codigo(DB, codigo).resp.id = d

\* C19: in every state reachable by creates and updates, no two students
\* share a cedula and no two students share an email.
C19_EstudiantesUnicos ==
    \A a, b \in DOMAIN estudiantes :
        a # b => /\ estudiantes[a].cedula # estudiantes[b].cedula
                 /\ estudiantes[a].email # estudiantes[b].email

\* C19 case: two students are stored; a create with the cedula of one, a
\* create with the email of one and an update of one to the email of the
\* other are refused
C19_Witness ==
    \E a, b \in DOMAIN estudiantes :
        /\ a # b
        /\ actualizar_estudiante(DB, a, [email |-> estudiantes[b].email]).resp.status = 409
        /\ \E req \in SolicitudesEstudiante :
              /\ req.cedula = estudiantes[a].cedula
              /\ req.email = estudiantes[b].email
              /\ {"La cedula ya existe", "El email ya existe"}
                     \subseteq Reportados(crear_estudiante(DB, req).resp)

\* C20: in every state reachable by creates and updates, no two professors
\* share a cedula and no two professors share an email.
C20_ProfesoresUnicos ==
    \A a, b \in DOMAIN profesores :
        a # b => /\ profesores[a].cedula # profesores[b].cedula
                 /\ profesores[a].email # profesores[b].email

\* The field rules a student request breaks, each judged on its own field:
\* cedula (digits, 5 to 12 of them), nombre (letters and spaces), email
\* (format), semestre (a number from 1 to 12).  A blank text field of an update
\* is dropped before validation and breaks nothing.
ReglasVioladas(datos) ==
    (IF "cedula" \in DOMAIN datos /\ ~isdigit(datos["cedula"])
       THEN {"La cedula solo puede contener numeros"}
     ELSE IF "cedula" \in DOMAIN datos
             /\ (Len(datos["cedula"]) < 5 \/ Len(datos["cedula"]) > 12)
       THEN {"La cedula debe tener entre 5 y 12 digitos"}
     ELSE {})
    \cup
    (IF "nombre" \in DOMAIN datos /\ ~EnBlanco(datos["nombre"])
        /\ ~SoloLetrasYEspacios(datos["nombre"])
       THEN {"El nombre solo puede contener letras y espacios"}
     ELSE {})
    \cup
    (IF "email" \in DOMAIN datos /\ ~EnBlanco(datos["email"])
        /\ EmailInvalido(strip(datos["email"]))
       THEN {"Formato de email invalido"}
     ELSE {})
    \cup
    (IF "semestre" \in DOMAIN datos /\ ~EnBlanco(datos["semestre"])
        /\ ~isdigit(datos["semestre"])
       THEN {"El semestre debe ser un numero"}
     ELSE IF "semestre" \in DOMAIN datos /\ ~EnBlanco(datos["semestre"])
             /\ (int(datos["semestre"]) < 1 \/ int(datos["semestre"]) > 12)
       THEN {"El semestre debe estar entre 1 y 12"}
     ELSE {})

\* Updates of a student that break the rules of two fields at once
ActualizacionesConVariasFallas ==
    {[nombre |-> NombreConDigito, email |-> EmailSinPunto],
     [nombre |-> NombreConDigito, semestre |-> SemestreFuera],
     [email |-> EmailSinPunto, semestre |-> SemestreNoNumero]}

\* C21: a create or an update of a student (and likewise of a professor or a
\* department) that breaks the rules of several fields at once answers with one
\* failure that lists every broken rule, and stores nothing.
C21_TodasLasReglasReportadas ==
    /\ \A req \in SolicitudesEstudiante :
         Cardinality(ReglasVioladas(req)) >= 2 =>
           LET r == crear_estudiante(DB, req)
           IN  /\ r.resp.status \notin Exitos
               /\ ReglasVioladas(req) \subseteq Reportados(r.resp)
               /\ r.db = DB
    /\ \A req \in SolicitudesDepartamento :
         (~isalnum(req.codigo) /\ EnBlanco(req.nombre)) =>
           LET r == crear_departamento(DB, req)
           IN  /\ r.resp.status \notin Exitos
               /\ Cardinality(Reportados(r.resp)) >= 2
               /\ r.db = DB
    /\ \A id \in DOMAIN estudiantes : \A datos \in ActualizacionesConVariasFallas :
         LET r == actualizar_estudiante(DB, id, datos)
         IN  /\ r.resp.status \notin Exitos
             /\ ReglasVioladas(datos) \subseteq Reportados(r.resp)
             /\ r.db = DB

\* C22: a create whose unique natural key (a student's or professor's cedula
\* or email, a course's code, a department's code) is already stored fails
\* with the Conflict kind (409), and an enroll of a pair already enrolled
\* fails with the Validation kind (400).
C22_DuplicadoConflicto ==
    /\ \A req \in SolicitudesEstudiante :
         (/\ ReglasVioladas(req) = {} /\ ~EnBlanco(req.nombre)
          /\ \E i \in DOMAIN estudiantes :
               estudiantes[i].cedula = req.cedula \/ estudiantes[i].email = req.email)
         => crear_estudiante(DB, req).resp.status = 409
    /\ \A req \in SolicitudesProfesor :
         (/\ ReglasVioladas(req) = {} /\ ~EnBlanco(req.nombre) /\ ~EnBlanco(req.titulo)
          /\ \E i \in DOMAIN profesores :
               profesores[i].cedula = req.cedula \/ profesores[i].email = req.email)
         => crear_profesor(DB, req).resp.status = 409
    /\ \A req \in SolicitudesDepartamento :
         (\E i \in DOMAIN departamentos : departamentos[i].codigo = upper(req.codigo))
         => crear_departamento(DB, req).resp.status = 409
    /\ \A req \in SolicitudesCurso :
         (\E i \in DOMAIN cursos : cursos[i].codigo = req.codigo)
         => crear_curso(DB, req).resp.status = 409
    /\ \A m \in matriculas :
         matricular_estudiante(DB, m.estudiante_id, m.curso_id).resp.status = 400

\* An update body with no field at all: model_dump(exclude_unset=True) == {}
SinCampos == [k \in {} |-> NULL]

\* The fields of an update body that are present and not blank
PresentesNoBlancos(datos) ==
    {k \in DOMAIN datos : ~(k \in CamposTexto /\ EnBlanco(datos[k]))}

\* nueva is fila with exactly the present, non-blank fields of datos applied
SoloPresentesAplicados(fila, nueva, datos) ==
    /\ DOMAIN nueva = DOMAIN fila
    /\ \A k \in DOMAIN fila :
         nueva[k] = IF k \in PresentesNoBlancos(datos) THEN datos[k] ELSE fila[k]

\* C23: a partial update applies only the fields that are present and not
\* blank in the request and leaves every other field of the record, and every
\* other record, unchanged; an update in which no field is present and not
\* blank fails with a Validation error (400) and changes nothing.
C23_ActualizacionParcial ==
    /\ \A id \in DOMAIN estudiantes :
       \A datos \in ActualizacionesEstudiante \cup {SinCampos} :
         LET r == actualizar_estudiante(DB, id, datos)
         IN  /\ PresentesNoBlancos(datos) = {} => r.resp.status = 400 /\ r.db = DB
             /\ r.resp.status \in Exitos =>
                  /\ SoloPresentesAplicados(estudiantes[id], r.db.estudiantes[id], datos)
                  /\ r.db = [DB EXCEPT !.estudiantes[id] = r.db.estudiantes[id]]
    /\ \A id \in DOMAIN profesores :
       \A datos \in ActualizacionesProfesor \cup {SinCampos} :
         LET r == actualizar_profesor(DB, id, datos)
         IN  /\ PresentesNoBlancos(datos) = {} => r.resp.status = 400 /\ r.db = DB
             /\ r.resp.status \in Exitos =>
                  /\ SoloPresentesAplicados(profesores[id], r.db.profesores[id], datos)
                  /\ r.db = [DB EXCEPT !.profesores[id] = r.db.profesores[id]]
    /\ \A id \in DOMAIN cursos :
       \A datos \in ActualizacionesCurso \cup {SinCampos} :
         LET r == actualizar_curso(DB, id, datos)
         IN  /\ PresentesNoBlancos(datos) = {} => r.resp.status = 400 /\ r.db = DB
             /\ r.resp.status \in Exitos =>
                  /\ SoloPresentesAplicados(cursos[id], r.db.cursos[id], datos)
                  /\ r.db = [DB EXCEPT !.cursos[id] = r.db.cursos[id]]
    /\ \A id \in DOMAIN departamentos :
       \A datos \in ActualizacionesDepartamento \cup {SinCampos} :
         LET r == actualizar_departamento(DB, id, datos)
         IN  /\ PresentesNoBlancos(datos) = {} => r.resp.status = 400 /\ r.db = DB
             /\ r.resp.status \in Exitos =>
                  /\ SoloPresentesAplicados(departamentos[id], r.db.departamentos[id], datos)
                  /\ r.db = [DB EXCEPT !.departamentos[id] = r.db.departamentos[id]]

\* A search answered without error carries at least one row
NoVacia(r) == r.resp.status = 200 => r.resp.cuerpo # {}
NotFound(r) == r.resp.status = 404 /\ r.resp.cuerpo = {} /\ r.db = DB

\* C24: a search by name, title, credits, professor or department that is
\* valid (credits within 1..6, the professor or department exists) and matches
\* no record fails with NotFound (404); it never succeeds with an empty list.
C24_BusquedaSinResultados ==
    /\ \A q \in ConsultasTexto :
         /\ (\A e \in DOMAIN estudiantes : ~ilike(estudiantes[e].nombre, q))
              => NotFound(estudiantes_buscar_por_nombre(DB, q))
         /\ (\A p \in DOMAIN profesores : ~ilike(profesores[p].nombre, q))
              => NotFound(profesor_buscar_por_nombre(DB, q))
         /\ (\A p \in DOMAIN profesores : ~ilike(profesores[p].titulo, q))
              => NotFound(profesor_buscar_por_titulo(DB, q))
         /\ (\A d \in DOMAIN departamentos : ~ilike(departamentos[d].nombre, q))
              => NotFound(departamento_buscar_por_nombre(DB, q))
         /\ (\A c \in DOMAIN cursos : ~ilike(cursos[c].nombre, q))
              => NotFound(curso_buscar_por_nombre(DB, q))
         /\ NoVacia(estudiantes_buscar_por_nombre(DB, q))
         /\ NoVacia(profesor_buscar_por_nombre(DB, q))
         /\ NoVacia(profesor_buscar_por_titulo(DB, q))
         /\ NoVacia(departamento_buscar_por_nombre(DB, q))
         /\ NoVacia(curso_buscar_por_nombre(DB, q))
    /\ \A n \in ConsultasCreditos :
         /\ (n \in 1..6 /\ \A c \in DOMAIN cursos : cursos[c].creditos # n)
              => NotFound(curso_buscar_por_creditos(DB, n))
         /\ NoVacia(curso_buscar_por_creditos(DB, n))
    /\ \A p \in DOMAIN profesores :
         /\ CursosDeProfesor(DB, p) = {} => NotFound(curso_buscar_por_profesor(DB, p))
         /\ NoVacia(curso_buscar_por_profesor(DB, p))
    /\ \A d \in DOMAIN departamentos :
         /\ CursosDeDepartamento(DB, d) = {} => NotFound(curso_buscar_por_departamento(DB, d))
         /\ ProfesoresDeDepartamento(DB, d) = {}
              => NotFound(profesor_buscar_por_departamento(DB, d))
         /\ NoVacia(curso_buscar_por_departamento(DB, d))
         /\ NoVacia(profesor_buscar_por_departamento(DB, d))

\* Courses are stored, one name query finds some of them and another, valid
\* as well, finds none and is answered 404
C24_Witness ==
    /\ cursos # <<>>
    /\ \E q \in ConsultasTexto : curso_buscar_por_nombre(DB, q).resp.status = 200
    /\ \E q \in ConsultasTexto :
         /\ \A c \in DOMAIN cursos : ~ilike(cursos[c].nombre, q)
         /\ curso_buscar_por_nombre(DB, q).resp.status = 404

\* C25: in every state reachable by any sequence of operations (create,
\* update, deactivate, delete, enroll, withdraw), every enrollment references
\* a student that exists and a course that exists: none is left dangling.
C25_SinMatriculasHuerfanas ==
    \A m \in matriculas :
        /\ m.estudiante_id \in DOMAIN estudiantes
        /\ m.curso_id \in DOMAIN cursos

\* Enrollments are stored after deactivations have run: a student and a
\* course are inactive, and fewer rows are left than pairs could be enrolled
C25_Witness ==
    /\ matriculas # {}
    /\ \E e \in DOMAIN estudiantes : ~estudiantes[e].activo
    /\ \E c \in DOMAIN cursos : ~cursos[c].activo
    /\ Cardinality(matriculas) < Cardinality(DOMAIN estudiantes) * Cardinality(DOMAIN cursos)

\* C26: in every state reachable by any sequence of operations, updates that
\* carry the activo field included, no enrollment references a student whose
\* active flag is false.
C26_SinMatriculasDeInactivos ==
    \A m \in matriculas :
        m.estudiante_id \in DOMAIN estudiantes => estudiantes[m.estudiante_id].activo

\* C27: in every state reachable by any sequence of operations, professor
\* updates that carry the activo field included, no course references a
\* professor whose active flag is false.
C27_SinCursosDeProfesorInactivo ==
    \A c \in DOMAIN cursos :
        cursos[c].profesor_id \in DOMAIN profesores => profesores[cursos[c].profesor_id].activo

\* despues differs from antes in nothing but the active flag of row id
SoloCambiaActivo(antes, despues, id) ==
    /\ DOMAIN despues = DOMAIN antes
    /\ \A i \in DOMAIN antes : i # id => despues[i] = antes[i]
    /\ \A k \in DOMAIN antes[id] : k # "activo" => despues[id][k] = antes[id][k]

\* C28: deactivating student S (or course C) changes only the active flag of
\* S (of C) and the enrollments that reference S (C): every enrollment of
\* another student (course) stays as it was and none is added, every other
\* student and course, and all professors and departments, are unchanged.
C28_MarcoDeLaDesactivacion ==
    /\ \A S \in DOMAIN estudiantes :
         LET r == eliminar_estudiante(DB, S)
         IN  r.resp.status \in Exitos =>
               /\ SoloCambiaActivo(estudiantes, r.db.estudiantes, S)
               /\ \A m \in matriculas : m.estudiante_id # S => m \in r.db.matriculas
               /\ r.db.matriculas \subseteq matriculas
               /\ r.db.cursos = cursos
               /\ r.db.profesores = profesores
               /\ r.db.departamentos = departamentos
    /\ \A C \in DOMAIN cursos :
         LET r == eliminar_curso(DB, C)
         IN  r.resp.status \in Exitos =>
               /\ SoloCambiaActivo(cursos, r.db.cursos, C)
               /\ \A m \in matriculas : m.curso_id # C => m \in r.db.matriculas
               /\ r.db.matriculas \subseteq matriculas
               /\ r.db.estudiantes = estudiantes
               /\ r.db.profesores = profesores
               /\ r.db.departamentos = departamentos

\* Two students are each enrolled in two courses; one student and one course
\* are deactivated, each next to enrollments of the other student and course
C28_Witness ==
    /\ Cardinality(matriculas) = 4
    /\ \E S \in DOMAIN estudiantes : \E C \in DOMAIN cursos :
         /\ eliminar_estudiante(DB, S).resp.status = 200
         /\ Cardinality(eliminar_estudiante(DB, S).db.matriculas) = 2
         /\ eliminar_curso(DB, C).resp.status = 200
         /\ Cardinality(eliminar_curso(DB, C).db.matriculas) = 2

\* A professor not yet stored, to take over courses
Suplente(departamento_id) ==
    [cedula |-> CedulasValidas[MaxProfesores + 1], nombre |-> NombreValido,
     email |-> EmailsValidos[MaxProfesores + 1], titulo |-> TituloValido,
     activo |-> TRUE, departamento_id |-> departamento_id]

\* PUT /cursos/{c} {profesor_id: q} for each course c of cs, one after another
RECURSIVE Reasignar(_, _, _)
Reasignar(db, cs, q) ==
    IF cs = {} THEN db
    ELSE LET c == CHOOSE x \in cs : TRUE
         IN  Reasignar(actualizar_curso(db, c, [profesor_id |-> q]).db, cs \ {c}, q)

BajaConfirmada(e, c) ==
    \E p \in Peticiones :
        /\ sesiones[p].fase = "fin"
        /\ sesiones[p].status = 200
        /\ sesiones[p].e = e
        /\ sesiones[p].c = c

\* C30: when enroll(S,C) runs concurrently with the deactivation of student S
\* or of course C, no interleaving of their read and commit steps ends in a
\* state where an enrollment references the deactivated student or course.
C30_MatriculaConcurrenteConBaja ==
    \A m \in matriculas :
        /\ ~BajaConfirmada(m.estudiante_id, 0)
        /\ ~BajaConfirmada(0, m.curso_id)

====
